---- MODULE Spec2Model ----
(***************************************************************************)
(* A model of numth: the integer functions of src/numth.py (div, gcd, lcm,  *)
(* bezout, padic, mod_inverse, mod_power, jacobi) and the lazily cached    *)
(* ModularRing of src/numth/algebraic_structures/modular_ring.py.          *)
(*                                                                         *)
(* Three specifications share the module's variables:                      *)
(*   Spec      one call of a terminating integer function per step;        *)
(*   SpecStep  padic and jacobi executed one loop iteration / one          *)
(*             recursive call at a time (their termination is in question);*)
(*   SpecRing  one ModularRing instance and its accessor calls.            *)
(***************************************************************************)
EXTENDS Integers, Sequences, FiniteSets, TLC

VARIABLES
    call, ret,                      \* Spec: the call made and what it returned
    pc, top, ja, jb, sgns, caller,  \* SpecStep: control, jacobi frames
    pnum, pbase, pexp, prest,       \* SpecStep: padic's arguments and locals
    jret, out,                      \* SpecStep: value being returned, final outcome
    modulus, orders,                \* SpecRing: ModularRing.modulus, .orders
    _factorization, _euler, _carmichael, _carmichael_factorization,
    _multiplicative_group, _generator, _as_cyclic_group, _discrete_log,
    last                            \* SpecRing: the last accessor call and its result

pureVars == <<call, ret>>
stepVars == <<pc, top, ja, jb, sgns, caller, pnum, pbase, pexp, prest, jret, out>>
ringVars == <<modulus, orders, _factorization, _euler, _carmichael,
              _carmichael_factorization, _multiplicative_group, _generator,
              _as_cyclic_group, _discrete_log, last>>
vars == <<pureVars, stepVars, ringVars>>

-----------------------------------------------------------------------------
(* Bounds of the model.                                                     *)

\* |num|, |div|, |a|, |b| of div, gcd, lcm, bezout, mod_inverse
MaxNum == 12
\* |num| of mod_power
MaxBase == 6
\* |exp| of mod_power
MaxExp == 6
\* largest mod of mod_inverse and mod_power (the smallest tried is -2)
MaxMod == 8

-----------------------------------------------------------------------------
(* Python's integer arithmetic.                                             *)

Abs(n) == IF n < 0 THEN -n ELSE n

\* Python's a // b: the floor of a / b, for either sign of b (b # 0).
FloorDiv(a, b) == IF b > 0 THEN a \div b ELSE (-a) \div (-b)

\* Python's a % b: a - b * (a // b), which takes the sign of b.
PyMod(a, b) == a - b * FloorDiv(a, b)

Divides(d, n) == n = d * FloorDiv(n, d)

\* the greatest positive common divisor of a and b, not both 0, by definition
GreatestCommonDivisor(a, b) ==
    LET m  == IF Abs(a) > Abs(b) THEN Abs(a) ELSE Abs(b)
        cd == {d \in 1 .. m : Divides(d, a) /\ Divides(d, b)}
    IN  CHOOSE d \in cd : \A e \in cd : e <= d

\* b^e for e >= 0, by repeated multiplication
RECURSIVE Pow(_, _)
Pow(b, e) == IF e = 0 THEN 1 ELSE b * Pow(b, e - 1)

\* What a call yields: a returned tuple of integers, or a raised exception.
\* tag is "ok" or the exception's class, msg the exception's message template.
Ok(v) == [tag |-> "ok", msg |-> "", val |-> v]
Raise(exc, message) == [tag |-> exc, msg |-> message, val |-> <<>>]

-----------------------------------------------------------------------------
(* src/numth.py                                                             *)

div(num, denom, METHOD) ==
    IF denom = 0 THEN Raise("ValueError", "Attempted division by zero")
    ELSE LET qr == IF denom > 0 \/ num = 0
                   THEN <<FloorDiv(num, denom), PyMod(num, denom)>>
                   ELSE <<FloorDiv(num, denom) + 1, PyMod(num, denom) + Abs(denom)>>
         IN  IF METHOD = "SMALL" /\ qr[2] > FloorDiv(Abs(denom), 2)
             THEN Ok(<<qr[1] + FloorDiv(denom, Abs(denom)), qr[2] - Abs(denom)>>)
             ELSE Ok(qr)

\* the while loop of gcd
RECURSIVE gcd_loop(_, _)
gcd_loop(a_, b_) ==
    IF b_ # 0 THEN gcd_loop(b_, div(a_, b_, "SMALL").val[2]) ELSE Abs(a_)

gcd(a, b) ==
    IF a = 0 /\ b = 0 THEN Raise("ValueError", "gcd(0, 0) is undefined") ELSE Ok(<<gcd_loop(a, b)>>)

lcm(a, b) ==
    IF a * b = 0 THEN Raise("ValueError", "lcm(_,0) is undefined")
    ELSE Ok(<<FloorDiv(a, gcd(a, b).val[1]) * b>>)

\* the while loop of bezout; s holds the locals a_, b_, q, r, xx, x, yy, y
RECURSIVE bezout_loop(_)
bezout_loop(s) ==
    IF s.r # 0
    THEN LET qr == div(s.b_, s.r, "SMALL").val
         IN  bezout_loop([a_ |-> s.b_, b_ |-> s.r, q |-> qr[1], r |-> qr[2],
                          xx |-> s.x, x |-> -qr[1] * s.x + s.xx,
                          yy |-> s.y, y |-> -qr[1] * s.y + s.yy])
    ELSE s

\* bezout without the final sign normalisation (lines 113-116)
bezout_nosign(a, b) ==
    IF a = 0 /\ b = 0 THEN Raise("ValueError", "gcd(0, 0) is undefined")
    ELSE IF b = 0 THEN Ok(<<1, 0>>)
    ELSE LET qr == div(a, b, "SMALL").val
             s  == bezout_loop([a_ |-> a, b_ |-> b, q |-> qr[1], r |-> qr[2],
                                xx |-> 0, x |-> 1, yy |-> 1, y |-> -qr[1]])
         IN  Ok(<<s.xx, s.yy>>)

bezout(a, b) ==
    IF a = 0 /\ b = 0 THEN Raise("ValueError", "gcd(0, 0) is undefined")
    ELSE IF b = 0 THEN (IF a > 0 THEN Ok(<<1, 0>>) ELSE Ok(<<-1, 0>>))
    ELSE LET qr == div(a, b, "SMALL").val
             s  == bezout_loop([a_ |-> a, b_ |-> b, q |-> qr[1], r |-> qr[2],
                                xx |-> 0, x |-> 1, yy |-> 1, y |-> -qr[1]])
         IN  IF a * s.xx + b * s.yy > 0
             THEN Ok(<<s.xx, s.yy>>)
             ELSE Ok(<<-s.xx, -s.yy>>)

mod_inverse(num, mod) ==
    IF mod < 1 THEN Raise("ValueError", "Modulus must be at least 2")
    ELSE IF gcd(num, mod).val[1] # 1
         THEN Raise("ValueError", "{} is not invertible modulo {}")
    ELSE Ok(<<PyMod(bezout(num, mod).val[1], mod)>>)

RECURSIVE mod_power(_, _, _)
\* mod_power whose odd-exponent branch drops the factor num (line 189)
mod_power_nofactor(num, exp, mod) ==
    IF mod < 2 THEN Raise("ValueError", "Modulus must be at least 2")
    ELSE IF exp < 0
         THEN LET inv == mod_inverse(num, mod)
              IN  IF inv.tag # "ok" THEN inv ELSE mod_power(inv.val[1], -exp, mod)
    ELSE IF exp = 0 THEN Ok(<<1>>)
    ELSE IF exp = 1 THEN Ok(<<PyMod(num, mod)>>)
    ELSE mod_power(num * num, FloorDiv(exp, 2), mod)

mod_power(num, exp, mod) ==
    IF mod < 2 THEN Raise("ValueError", "Modulus must be at least 2")
    ELSE IF exp < 0
         THEN LET inv == mod_inverse(num, mod)
              IN  IF inv.tag # "ok" THEN inv ELSE mod_power(inv.val[1], -exp, mod)
    ELSE IF exp = 0 THEN Ok(<<1>>)
    ELSE IF exp = 1 THEN Ok(<<PyMod(num, mod)>>)
    ELSE IF PyMod(exp, 2) = 0 THEN mod_power(num * num, FloorDiv(exp, 2), mod)
    ELSE Ok(<<PyMod(num * mod_power(num * num, FloorDiv(exp, 2), mod).val[1], mod)>>)

-----------------------------------------------------------------------------
(* Spec: one call of div, gcd, lcm, bezout, mod_inverse or mod_power.       *)

Idle == [fn |-> "none", args |-> <<>>, METHOD |-> "None"]
NoRet == [tag |-> "none", msg |-> "", val |-> <<>>]

Nums == -MaxNum .. MaxNum

PureIdle == call = Idle

CallDiv ==
    /\ PureIdle
    /\ \E num \in Nums, denom \in Nums, METHOD \in {"None", "SMALL"} :
          /\ call' = [fn |-> "div", args |-> <<num, denom>>, METHOD |-> METHOD]
          /\ ret' = div(num, denom, METHOD)
    /\ UNCHANGED <<stepVars, ringVars>>

CallGcd ==
    /\ PureIdle
    /\ \E a \in Nums, b \in Nums :
          /\ call' = [fn |-> "gcd", args |-> <<a, b>>, METHOD |-> "None"]
          /\ ret' = gcd(a, b)
    /\ UNCHANGED <<stepVars, ringVars>>

CallLcm ==
    /\ PureIdle
    /\ \E a \in Nums, b \in Nums :
          /\ call' = [fn |-> "lcm", args |-> <<a, b>>, METHOD |-> "None"]
          /\ ret' = lcm(a, b)
    /\ UNCHANGED <<stepVars, ringVars>>

CallBezout ==
    /\ PureIdle
    /\ \E a \in Nums, b \in Nums :
          /\ call' = [fn |-> "bezout", args |-> <<a, b>>, METHOD |-> "None"]
          /\ ret' = bezout(a, b)
    /\ UNCHANGED <<stepVars, ringVars>>

CallModInverse ==
    /\ PureIdle
    /\ \E num \in Nums, mod \in -2 .. MaxMod :
          /\ call' = [fn |-> "mod_inverse", args |-> <<num, mod>>, METHOD |-> "None"]
          /\ ret' = mod_inverse(num, mod)
    /\ UNCHANGED <<stepVars, ringVars>>

CallModPower ==
    /\ PureIdle
    /\ \E num \in -MaxBase .. MaxBase, exp \in -MaxExp .. MaxExp, mod \in -2 .. MaxMod :
          /\ call' = [fn |-> "mod_power", args |-> <<num, exp, mod>>, METHOD |-> "None"]
          /\ ret' = mod_power(num, exp, mod)
    /\ UNCHANGED <<stepVars, ringVars>>

\* the caller takes the result (or the exception) and is free to call again
Return ==
    /\ call # Idle
    /\ call' = Idle
    /\ ret' = NoRet
    /\ UNCHANGED <<stepVars, ringVars>>

StepIdle ==
    /\ pc = "idle" /\ top = [fn |-> "none", args |-> <<>>] /\ ja = 0 /\ jb = 0 /\ sgns = <<>>
    /\ caller = "none" /\ pnum = 0 /\ pbase = 0 /\ pexp = 0 /\ prest = 0
    /\ jret = 0 /\ out = NoRet

RingIdle ==
    /\ modulus = 0 /\ orders = <<>>
    /\ _factorization = <<>> /\ _euler = <<>> /\ _carmichael = <<>>
    /\ _carmichael_factorization = <<>> /\ _multiplicative_group = <<>>
    /\ _generator = <<>> /\ _as_cyclic_group = <<>> /\ _discrete_log = <<>>
    /\ last = [fn |-> "none", arg |-> 0, val |-> <<>>, exc |-> "none", path |-> ""]

Init == call = Idle /\ ret = NoRet /\ StepIdle /\ RingIdle

Next ==
    \/ CallDiv
    \/ CallGcd
    \/ CallLcm
    \/ CallBezout
    \/ CallModInverse
    \/ CallModPower
    \/ Return

Spec == Init /\ [][Next]_vars

-----------------------------------------------------------------------------
(* SpecStep: padic and jacobi of src/numth.py, one loop iteration and one   *)
(* recursive call at a time.                                                *)

\* |a| and |b| of a top-level jacobi(a, b)
MaxJacobi == 16
\* |num| of a top-level padic(num, base)
MaxPadicNum == 16
\* largest base of a top-level padic(num, base) (the smallest tried is 0)
MaxPadicBase == 4
\* iterations of padic's loop the model follows
MaxIter == 6

TopIdle == [fn |-> "none", args |-> <<>>]

StartPadic ==
    /\ pc = "idle"
    /\ \E num \in -MaxPadicNum .. MaxPadicNum, base \in 0 .. MaxPadicBase :
          /\ top' = [fn |-> "padic", args |-> <<num, base>>]
          /\ pnum' = num
          /\ pbase' = base
    /\ caller' = "top"
    /\ pc' = "padic"
    /\ UNCHANGED <<ja, jb, sgns, pexp, prest, jret, out, pureVars, ringVars>>

\* padic, lines 132-136: the base check, then exp = 0, rest = num
PadicEnter ==
    /\ pc = "padic"
    /\ IF pbase < 2
       THEN /\ out' = Raise("ValueError", "p-adic base must be at least 2")
            /\ pc' = "done"
            /\ sgns' = <<>>
            /\ UNCHANGED <<pexp, prest>>
       ELSE /\ pexp' = 0
            /\ prest' = pnum
            /\ pc' = "padic_loop"
            /\ UNCHANGED <<out, sgns>>
    /\ UNCHANGED <<top, ja, jb, caller, pnum, pbase, jret, pureVars, ringVars>>

\* padic, lines 137-139: one iteration of the while loop
PadicIterate ==
    /\ pc = "padic_loop"
    /\ PyMod(prest, pbase) = 0
    /\ pexp < MaxIter
    /\ pexp' = pexp + 1
    /\ prest' = FloorDiv(prest, pbase)
    /\ UNCHANGED <<pc, top, ja, jb, sgns, caller, pnum, pbase, jret, out,
                   pureVars, ringVars>>

\* padic, lines 137 and 140: the loop condition fails, (exp, rest) is returned
PadicReturn ==
    /\ pc = "padic_loop"
    /\ PyMod(prest, pbase) # 0
    /\ IF caller = "top"
       THEN out' = Ok(<<pexp, prest>>) /\ pc' = "done"
       ELSE out' = out /\ pc' = "jacobi_resume"
    /\ UNCHANGED <<top, ja, jb, sgns, caller, pnum, pbase, pexp, prest, jret,
                   pureVars, ringVars>>

StartJacobi ==
    /\ pc = "idle"
    /\ \E a \in -MaxJacobi .. MaxJacobi, b \in -MaxJacobi .. MaxJacobi :
          /\ top' = [fn |-> "jacobi", args |-> <<a, b>>]
          /\ ja' = a
          /\ jb' = b
    /\ pc' = "jacobi"
    /\ UNCHANGED <<sgns, caller, pnum, pbase, pexp, prest, jret, out,
                   pureVars, ringVars>>

\* jacobi, lines 205-214: the parity check (whose raise statement formats the
\* undefined names num and mod, so that evaluating it raises NameError),
\* b == 1, gcd(a, b) != 1, then the call padic(a % b, 2)
JacobiEnter ==
    /\ pc = "jacobi"
    /\ IF PyMod(jb, 2) = 0
       THEN /\ out' = Raise("NameError", "name 'num' is not defined")
            /\ pc' = "done"
            /\ sgns' = <<>>
            /\ UNCHANGED <<jret, caller, pnum, pbase>>
       ELSE IF jb = 1
       THEN /\ jret' = 1
            /\ pc' = "return"
            /\ UNCHANGED <<out, sgns, caller, pnum, pbase>>
       ELSE IF gcd(ja, jb).val[1] # 1
       THEN /\ jret' = 0
            /\ pc' = "return"
            /\ UNCHANGED <<out, sgns, caller, pnum, pbase>>
       ELSE /\ caller' = "jacobi"
            /\ pnum' = PyMod(ja, jb)
            /\ pbase' = 2
            /\ pc' = "padic"
            /\ UNCHANGED <<out, sgns, jret>>
    /\ UNCHANGED <<top, ja, jb, pexp, prest, pureVars, ringVars>>

\* the sign of lines 215-218 with the residues of b mod 8 taken as 3 and 7
SupplementarySign_37(exp, b) ==
    IF PyMod(exp, 2) = 1 /\ PyMod(b, 8) \in {3, 7} THEN -1 ELSE 1

\* jacobi, lines 215-218: the sign from the power of 2 taken out of a % b
SupplementarySign(exp, b) ==
    IF PyMod(exp, 2) = 1 /\ PyMod(b, 8) \in {3, 5} THEN -1 ELSE 1

\* jacobi, lines 222-223: the sign of quadratic reciprocity
ReciprocitySign(sgn, b, a_) ==
    IF PyMod(b, 4) # 1 /\ PyMod(a_, 4) # 1 THEN sgn * (-1) ELSE sgn

\* jacobi, lines 214-224: padic has returned (exp, a_); return sgn, or make
\* the recursive call jacobi(b, a_) whose result this frame multiplies by sgn
JacobiResume ==
    /\ pc = "jacobi_resume"
    /\ LET sgn == SupplementarySign(pexp, jb)
           a_  == prest
       IN  IF a_ = 1
           THEN /\ jret' = sgn
                /\ pc' = "return"
                /\ UNCHANGED <<ja, jb, sgns>>
           ELSE /\ sgns' = Append(sgns, ReciprocitySign(sgn, jb, a_))
                /\ ja' = jb
                /\ jb' = a_
                /\ pc' = "jacobi"
                /\ UNCHANGED jret
    /\ UNCHANGED <<top, caller, pnum, pbase, pexp, prest, out, pureVars, ringVars>>

\* a frame of jacobi returns: to the frame that called it (line 224, which
\* multiplies by its sgn), or to the top-level caller
JacobiReturn ==
    /\ pc = "return"
    /\ IF sgns = <<>>
       THEN /\ out' = Ok(<<jret>>)
            /\ pc' = "done"
            /\ UNCHANGED <<jret, sgns>>
       ELSE /\ jret' = sgns[Len(sgns)] * jret
            /\ sgns' = SubSeq(sgns, 1, Len(sgns) - 1)
            /\ UNCHANGED <<pc, out>>
    /\ UNCHANGED <<top, ja, jb, caller, pnum, pbase, pexp, prest, pureVars, ringVars>>

\* the top-level caller takes the result or the exception
StepReset ==
    /\ pc = "done"
    /\ pc' = "idle" /\ top' = TopIdle /\ ja' = 0 /\ jb' = 0 /\ sgns' = <<>>
    /\ caller' = "none" /\ pnum' = 0 /\ pbase' = 0 /\ pexp' = 0 /\ prest' = 0
    /\ jret' = 0 /\ out' = NoRet
    /\ UNCHANGED <<pureVars, ringVars>>

NextStep ==
    \/ StartPadic
    \/ PadicEnter
    \/ PadicIterate
    \/ PadicReturn
    \/ StartJacobi
    \/ JacobiEnter
    \/ JacobiResume
    \/ JacobiReturn
    \/ StepReset

SpecStep == Init /\ [][NextStep]_vars

-----------------------------------------------------------------------------
(* The collaborators of ModularRing that are imported from modules outside  *)
(* the sources at hand (numth.factorization, numth.modular, numth.basic),   *)
(* as section 6 of the specification gives their contracts.                 *)

IsPrime(p) == p >= 2 /\ \A d \in 2 .. p - 1 : ~Divides(d, p)

\* the exponent of the prime p in n >= 1
RECURSIVE Multiplicity(_, _)
Multiplicity(n, p) == IF Divides(p, n) THEN 1 + Multiplicity(n \div p, p) ELSE 0

\* factor(n): the mapping prime -> exponent >= 1 whose product is n
factor(n) ==
    [p \in {q \in 2 .. n : IsPrime(q) /\ Divides(q, n)} |-> Multiplicity(n, p)]

\* the product of f[x] over the x of the finite set S of integers
RECURSIVE Product(_, _)
Product(S, f) ==
    IF S = {} THEN 1
    ELSE LET x == CHOOSE y \in S : \A z \in S : y <= z
         IN  f[x] * Product(S \ {x}, f)

\* euler_phi(factorization): n * prod (1 - 1/p) = prod p^(e-1) * (p-1)
euler_phi(fact) ==
    Product(DOMAIN fact, [p \in DOMAIN fact |-> Pow(p, fact[p] - 1) * (p - 1)])

\* lambda(2) = 1, lambda(4) = 2, lambda(2^e) = 2^(e-2) for e >= 3,
\* lambda(p^e) = phi(p^e) for an odd prime p
LambdaPrimePower(p, e) ==
    IF p = 2
    THEN (IF e = 1 THEN 1 ELSE IF e = 2 THEN 2 ELSE Pow(2, e - 2))
    ELSE Pow(p, e - 1) * (p - 1)

\* the lcm of g[x] over the x of the finite set S of integers
RECURSIVE LcmOver(_, _)
LcmOver(S, g) ==
    IF S = {} THEN 1
    ELSE LET x == CHOOSE y \in S : \A z \in S : y <= z
         IN  lcm(g[x], LcmOver(S \ {x}, g)).val[1]

\* carmichael_lambda(factorization): the lcm of lambda(p^e) over the prime powers
carmichael_lambda(fact) ==
    LcmOver(DOMAIN fact, [p \in DOMAIN fact |-> LambdaPrimePower(p, fact[p])])

\* the elements of the finite set S of integers in ascending order
RECURSIVE Ascending(_)
Ascending(S) ==
    IF S = {} THEN <<>>
    ELSE LET x == CHOOSE y \in S : \A z \in S : y <= z
         IN  <<x>> \o Ascending(S \ {x})

\* prime_to(factorization): the residues in [1, n) coprime to n, ascending
prime_to(fact) ==
    LET n == Product(DOMAIN fact, [p \in DOMAIN fact |-> Pow(p, fact[p])])
    IN  Ascending({x \in 1 .. n - 1 : \A p \in DOMAIN fact : ~Divides(p, x)})

-----------------------------------------------------------------------------
(* src/numth/algebraic_structures/modular_ring.py: class ModularRing.       *)
(* A ring value r is the record of the instance's fields; a cache cell is   *)
(* None until it is computed and Some(v) afterwards.  An accessor is an     *)
(* operator from the ring to the ring it leaves (st) and the value it       *)
(* returns (v).                                                             *)

None == <<>>
Some(v) == <<v>>

\* F applied to the result x of a call: x is computed once and then read
Bind(x, F(_)) == F(x)

\* __init__
NewRing(m) ==
    [modulus |-> m,
     orders |-> IF m = 2 THEN (1 :> 1) ELSE (1 :> 1) @@ ((m - 1) :> 2),
     _factorization |-> None, _euler |-> None, _carmichael |-> None,
     _carmichael_factorization |-> None, _multiplicative_group |-> None,
     _generator |-> None, _as_cyclic_group |-> None, _discrete_log |-> None]

factorization(r) ==
    IF r._factorization = None
    THEN Bind(factor(r.modulus), LAMBDA f :
            [st |-> [r EXCEPT !._factorization = Some(f)], v |-> f])
    ELSE [st |-> r, v |-> r._factorization[1]]

euler(r) ==
    IF r._euler = None
    THEN Bind(factorization(r), LAMBDA f :
         Bind(euler_phi(f.v), LAMBDA e :
            [st |-> [f.st EXCEPT !._euler = Some(e)], v |-> e]))
    ELSE [st |-> r, v |-> r._euler[1]]

carmichael(r) ==
    IF r._carmichael = None
    THEN Bind(factorization(r), LAMBDA f :
         Bind(carmichael_lambda(f.v), LAMBDA c :
            [st |-> [f.st EXCEPT !._carmichael = Some(c)], v |-> c]))
    ELSE [st |-> r, v |-> r._carmichael[1]]

carmichael_factorization(r) ==
    IF r._carmichael_factorization = None
    THEN Bind(carmichael(r), LAMBDA c :
         Bind(factor(c.v), LAMBDA f :
            [st |-> [c.st EXCEPT !._carmichael_factorization = Some(f)], v |-> f]))
    ELSE [st |-> r, v |-> r._carmichael_factorization[1]]

\* Counter(fact).elements(): each prime repeated by its exponent
RECURSIVE Elements(_, _)
Elements(fact, keys) ==
    IF keys = <<>> THEN <<>>
    ELSE [i \in 1 .. fact[Head(keys)] |-> Head(keys)] \o Elements(fact, Tail(keys))

carmichael_primes(r) ==
    Bind(carmichael_factorization(r), LAMBDA f :
        [st |-> f.st, v |-> Elements(f.v, Ascending(DOMAIN f.v))])

is_cyclic(r) ==
    Bind(euler(r), LAMBDA e :
    Bind(carmichael(e.st), LAMBDA c :
        [st |-> c.st, v |-> (e.v = c.v)]))

multiplicative_group(r) ==
    IF r._multiplicative_group = None
    THEN Bind(factorization(r), LAMBDA f :
         Bind(prime_to(f.v), LAMBDA g :
            [st |-> [f.st EXCEPT !._multiplicative_group = Some(g)], v |-> g]))
    ELSE [st |-> r, v |-> r._multiplicative_group[1]]

elem(r, number) == PyMod(number, r.modulus)

\* mult(x, y): reduce(lambda x, y: (x * y) % modulus, (x, y), 1)
mult(r, x, y) == PyMod(PyMod(1 * x, r.modulus) * y, r.modulus)

power_of(r, element, exponent) == mod_power(element, exponent, r.modulus).val[1]

\* d[k] = v of a Python dict d, as a function
Assign(d, k, v) == [x \in DOMAIN d \cup {k} |-> IF x = k THEN v ELSE d[x]]

Minimum(S) == CHOOSE x \in S : \A y \in S : x <= y

Values(d) == {d[k] : k \in DOMAIN d}

\* the while loop of cyclic_subgroup_from; subgroup maps power -> element
RECURSIVE cyclic_subgroup_loop(_, _, _, _, _)
cyclic_subgroup_loop(r, element, subgroup, curr_elem, curr_power) ==
    IF curr_elem # 1
    THEN cyclic_subgroup_loop(r, element, subgroup @@ (curr_power :> curr_elem),
                              mult(r, curr_elem, element), curr_power + 1)
    ELSE [subgroup |-> subgroup, curr_power |-> curr_power]

cyclic_subgroup_from(r, element) ==
    Bind(cyclic_subgroup_loop(r, element, 0 :> 1, element, 1), LAMBDA l :
        [st |-> IF element \notin DOMAIN r.orders
                THEN [r EXCEPT !.orders = Assign(r.orders, element, l.curr_power)]
                ELSE r,
         v |-> l.subgroup])

\* the powers p*e that one prime p adds to the known powers (line 180)
NewPowers(r, p, powers) ==
    [k \in {p * e : e \in DOMAIN powers} \ DOMAIN powers |->
        power_of(r, powers[k \div p], p)]

RECURSIVE divisor_search(_, _, _, _)
\* the search taking the largest new exponent whose power is 1 (line 182
\* with max for min)
divisor_search_max(r, primes, i, powers) ==
    IF i > Len(primes) THEN None
    ELSE Bind(NewPowers(r, primes[i], powers), LAMBDA new_powers :
         Bind({e \in DOMAIN new_powers : new_powers[e] = 1}, LAMBDA hits :
            IF hits # {}
            THEN Some(CHOOSE x \in hits : \A y \in hits : y <= x)
            ELSE divisor_search(r, primes, i + 1, new_powers @@ powers)))

\* order_of, lines 177-187: the search over the divisors of carmichael().
\* powers maps an exponent to that power of the element; the result is the
\* order found, or None when the primes are exhausted (the method then
\* returns None implicitly)
divisor_search(r, primes, i, powers) ==
    IF i > Len(primes) THEN None
    ELSE Bind(NewPowers(r, primes[i], powers), LAMBDA new_powers :
         Bind({e \in DOMAIN new_powers : new_powers[e] = 1}, LAMBDA hits :
            IF hits # {}
            THEN Some(Minimum(hits))
            ELSE divisor_search(r, primes, i + 1, new_powers @@ powers)))

RECURSIVE order_of(_, _)

\* the for loop of generator
RECURSIVE generator_loop(_, _, _)
generator_loop(r, group, i) ==
    IF i > Len(group) THEN r
    ELSE Bind(order_of(r, group[i]), LAMBDA o :
         Bind(euler(o.st), LAMBDA e :
            IF o.v = Some(e.v)
            THEN [e.st EXCEPT !._generator = Some(group[i])]
            ELSE generator_loop(e.st, group, i + 1)))

generator(r) ==
    IF r._generator = None
    THEN Bind(is_cyclic(r), LAMBDA c :
            IF c.v
            THEN Bind(multiplicative_group(c.st), LAMBDA g :
                 Bind(generator_loop(g.st, g.v, 1), LAMBDA st :
                    [st |-> st, v |-> st._generator]))
            ELSE [st |-> c.st, v |-> None])
    ELSE [st |-> r, v |-> r._generator]

\* as_cyclic_group that stores the group again, in the order of the powers
\* (line 100 without its test, line 101 without sorted)
as_cyclic_group_regroup(r) ==
    IF r._as_cyclic_group = None
    THEN Bind(is_cyclic(r), LAMBDA c :
            IF c.v
            THEN Bind(generator(c.st), LAMBDA g :
                 Bind(cyclic_subgroup_from(g.st, g.v[1]), LAMBDA sub :
                    [st |-> [sub.st EXCEPT
                                !._as_cyclic_group = Some(sub.v),
                                !._multiplicative_group =
                                    Some([i \in 1 .. Cardinality(DOMAIN sub.v) |->
                                             sub.v[i - 1]])],
                     v |-> Some(sub.v)]))
            ELSE [st |-> c.st, v |-> None])
    ELSE [st |-> r, v |-> r._as_cyclic_group]

\* as_cyclic_group, lines 99-101: the cells written once the subgroup sub of
\* the generator is known
StoreCyclicGroup(sub) ==
    [st |-> [sub.st EXCEPT
                !._as_cyclic_group = Some(sub.v),
                !._multiplicative_group =
                    IF sub.st._multiplicative_group = None
                    THEN Some(Ascending(Values(sub.v)))
                    ELSE sub.st._multiplicative_group],
     v |-> Some(sub.v)]

as_cyclic_group(r) ==
    IF r._as_cyclic_group = None
    THEN Bind(is_cyclic(r), LAMBDA c :
            IF c.v
            THEN Bind(generator(c.st), LAMBDA g :
                    StoreCyclicGroup(cyclic_subgroup_from(g.st, g.v[1])))
            ELSE [st |-> c.st, v |-> None])
    ELSE [st |-> r, v |-> r._as_cyclic_group]

\* {x : e for e, x in group.items()}
Inverted(group) ==
    [x \in Values(group) |-> CHOOSE e \in DOMAIN group : group[e] = x]

discrete_log(r) ==
    IF r._discrete_log = None
    THEN Bind(is_cyclic(r), LAMBDA c :
            IF c.v
            THEN Bind(as_cyclic_group(c.st), LAMBDA g :
                 Bind(Inverted(g.v[1]), LAMBDA log :
                    [st |-> [g.st EXCEPT !._discrete_log = Some(log)],
                     v |-> Some(log)]))
            ELSE [st |-> c.st, v |-> None])
    ELSE [st |-> r, v |-> r._discrete_log]

\* what order_of returns: the ring it leaves, the order or None, the
\* exception raised if any, and which of its three paths answered: the
\* cached entry (lines 169-170), the discrete log (172-175), the divisor
\* search (177-187)
Answer(st, v, exc, path) == [st |-> st, v |-> v, exc |-> exc, path |-> path]

\* self.orders[element] = order; return order
StoreOrder(st, element, order, path) ==
    Answer([st EXCEPT !.orders = Assign(st.orders, element, order)],
           Some(order), "none", path)

order_of(r, element) ==
    IF element \in DOMAIN r.orders
    THEN Answer(r, Some(r.orders[element]), "none", "cached")
    ELSE IF r._generator # None
    THEN Bind(euler(r), LAMBDA e1 :
         Bind(discrete_log(e1.st), LAMBDA dl :
            IF element \notin DOMAIN dl.v[1]
            THEN Answer(dl.st, None, "KeyError", "discrete_log")
            ELSE Bind(euler(dl.st), LAMBDA e2 :
                    StoreOrder(e2.st, element,
                               FloorDiv(e1.v, gcd(dl.v[1][element], e2.v).val[1]),
                               "discrete_log"))))
    ELSE Bind(carmichael_primes(r), LAMBDA cp :
         Bind(divisor_search(cp.st, cp.v, 1, 1 :> elem(r, element)), LAMBDA found :
            IF found # None
            THEN StoreOrder(cp.st, element, found[1], "divisors")
            ELSE Answer(cp.st, None, "none", "divisors")))

\* the for loop of all_orders
RECURSIVE all_orders_loop(_, _, _)
all_orders_loop(r, group, i) ==
    IF i > Len(group) THEN r
    ELSE all_orders_loop(order_of(r, group[i]).st, group, i + 1)

all_orders(r) ==
    Bind(euler(r), LAMBDA e :
        IF Cardinality(DOMAIN r.orders) # e.v
        THEN Bind(is_cyclic(e.st), LAMBDA c :
             Bind(IF c.v THEN generator(c.st).st ELSE c.st, LAMBDA g :
             Bind(multiplicative_group(g), LAMBDA mg :
             Bind(all_orders_loop(mg.st, mg.v, 1), LAMBDA st :
                [st |-> st, v |-> st.orders]))))
        ELSE [st |-> e.st, v |-> e.st.orders])

all_generators(r) ==
    Bind(all_orders(r), LAMBDA o :
    Bind(euler(o.st), LAMBDA e :
        [st |-> e.st, v |-> {x \in DOMAIN o.v : o.v[x] = e.v}]))

-----------------------------------------------------------------------------
(* SpecRing: one ModularRing and the calls of its accessors.                *)

\* largest modulus of the ring
MaxModulus == 9

Ring ==
    [modulus |-> modulus, orders |-> orders,
     _factorization |-> _factorization, _euler |-> _euler,
     _carmichael |-> _carmichael,
     _carmichael_factorization |-> _carmichael_factorization,
     _multiplicative_group |-> _multiplicative_group,
     _generator |-> _generator, _as_cyclic_group |-> _as_cyclic_group,
     _discrete_log |-> _discrete_log]

\* the instance becomes st; the call is remembered with the integer it
\* returned, if it returned one
Becomes(st, fn, arg, val, exc, path) ==
    /\ modulus' = st.modulus
    /\ orders' = st.orders
    /\ _factorization' = st._factorization
    /\ _euler' = st._euler
    /\ _carmichael' = st._carmichael
    /\ _carmichael_factorization' = st._carmichael_factorization
    /\ _multiplicative_group' = st._multiplicative_group
    /\ _generator' = st._generator
    /\ _as_cyclic_group' = st._as_cyclic_group
    /\ _discrete_log' = st._discrete_log
    /\ last' = [fn |-> fn, arg |-> arg, val |-> val, exc |-> exc, path |-> path]
    /\ UNCHANGED <<pureVars, stepVars>>

\* a call that returned a container (a cell of the instance)
Returned(c, fn, arg) == Becomes(c.st, fn, arg, None, "none", "")

\* a call that returned the integer c.v
ReturnedInt(c, fn) == Becomes(c.st, fn, 0, Some(c.v), "none", "")

\* the units of the ring among the residues
Units(m) == {x \in 1 .. m - 1 : GreatestCommonDivisor(x, m) = 1}

CallFactorization == Returned(factorization(Ring), "factorization", 0)

CallEuler == ReturnedInt(euler(Ring), "euler")

CallCarmichael == ReturnedInt(carmichael(Ring), "carmichael")

CallCarmichaelFactorization ==
    Returned(carmichael_factorization(Ring), "carmichael_factorization", 0)

CallCarmichaelPrimes == Returned(carmichael_primes(Ring), "carmichael_primes", 0)

CallIsCyclic == Returned(is_cyclic(Ring), "is_cyclic", 0)

CallMultiplicativeGroup ==
    Returned(multiplicative_group(Ring), "multiplicative_group", 0)

\* generator() returns the generator or None
ReturnedGenerator(c) == Becomes(c.st, "generator", 0, c.v, "none", "")

CallGenerator == ReturnedGenerator(generator(Ring))

CallAsCyclicGroup == Returned(as_cyclic_group(Ring), "as_cyclic_group", 0)

CallDiscreteLog == Returned(discrete_log(Ring), "discrete_log", 0)

CallAllOrders == Returned(all_orders(Ring), "all_orders", 0)

CallAllGenerators == Returned(all_generators(Ring), "all_generators", 0)

ReturnedOrder(c, element) == Becomes(c.st, "order_of", element, c.v, c.exc, c.path)

\* order_of(element) for any residue; for one that is no unit the method
\* returns None or, on the discrete-log path, raises KeyError
CallOrderOf ==
    \E element \in 0 .. modulus - 1 :
        ReturnedOrder(order_of(Ring, element), element)

\* cyclic_subgroup_from(element) for a unit (for any other residue its loop
\* never reaches 1 and the call does not return)
CallCyclicSubgroupFrom ==
    \E element \in Units(modulus) :
        Returned(cyclic_subgroup_from(Ring, element), "cyclic_subgroup_from", element)

InitRing ==
    /\ call = Idle /\ ret = NoRet /\ StepIdle
    /\ \E m \in 2 .. MaxModulus :
          LET r == NewRing(m)
          IN  /\ modulus = r.modulus
              /\ orders = r.orders
              /\ _factorization = r._factorization
              /\ _euler = r._euler
              /\ _carmichael = r._carmichael
              /\ _carmichael_factorization = r._carmichael_factorization
              /\ _multiplicative_group = r._multiplicative_group
              /\ _generator = r._generator
              /\ _as_cyclic_group = r._as_cyclic_group
              /\ _discrete_log = r._discrete_log
    /\ last = [fn |-> "__init__", arg |-> 0, val |-> None, exc |-> "none", path |-> ""]

NextRing ==
    \/ CallFactorization
    \/ CallEuler
    \/ CallCarmichael
    \/ CallCarmichaelFactorization
    \/ CallCarmichaelPrimes
    \/ CallIsCyclic
    \/ CallMultiplicativeGroup
    \/ CallGenerator
    \/ CallAsCyclicGroup
    \/ CallDiscreteLog
    \/ CallAllOrders
    \/ CallAllGenerators
    \/ CallOrderOf
    \/ CallCyclicSubgroupFrom

SpecRing == InitRing /\ [][NextRing]_vars

-----------------------------------------------------------------------------
(* Properties of the integer functions, checked under Spec.                 *)

\* the error kinds of the specification, as the messages the code raises
InvalidModulus == "Modulus must be at least 2"

\* C1: for every a and every nonzero b, div(a, b) in default mode returns
\* (q, r) with a = q*b + r and 0 <= r < |b|.
C1_DivDefaultRange ==
    (call.fn = "div" /\ call.METHOD = "None" /\ call.args[2] # 0) =>
        /\ ret.tag = "ok"
        /\ call.args[1] = ret.val[1] * call.args[2] + ret.val[2]
        /\ 0 <= ret.val[2]
        /\ ret.val[2] < Abs(call.args[2])

\* C2: for all a, b not both zero, bezout(a, b) returns (x, y) with
\* a*x + b*y equal to gcd(a, b), which is the positive greatest common
\* divisor of a and b.
C2_BezoutIdentity ==
    (call.fn = "bezout" /\ ~(call.args[1] = 0 /\ call.args[2] = 0)) =>
        /\ ret.tag = "ok"
        /\ Len(ret.val) = 2
        /\ call.args[1] * ret.val[1] + call.args[2] * ret.val[2]
              = gcd(call.args[1], call.args[2]).val[1]
        /\ gcd(call.args[1], call.args[2]).val[1]
              = GreatestCommonDivisor(call.args[1], call.args[2])

\* bezout has returned for a negative a and b = 0, or for two negative
\* operands with a nontrivial gcd after at least one round of the loop
C2_Witness ==
    /\ call.fn = "bezout" /\ ret.tag = "ok"
    /\ \/ call.args[1] < 0 /\ call.args[2] = 0
       \/ /\ call.args[1] < 0 /\ call.args[2] < 0
          /\ ret.val[1] # 0 /\ ret.val[2] # 0
          /\ GreatestCommonDivisor(call.args[1], call.args[2]) > 1

\* C3: for mod >= 2 and exp >= 0, mod_power(num, exp, mod) = (num^exp) mod
\* mod; for exp < 0 and gcd(num, mod) = 1 it is the inverse of num^(-exp):
\* mod_inverse(mod_power(num, exp, mod), mod) = mod_power(num, -exp, mod).
C3_ModPower ==
    (call.fn = "mod_power" /\ call.args[3] >= 2) =>
        LET num == call.args[1]
            exp == call.args[2]
            mod == call.args[3]
        IN  /\ exp >= 0 => ret = Ok(<<PyMod(Pow(num, exp), mod)>>)
            /\ (exp < 0 /\ GreatestCommonDivisor(num, mod) = 1) =>
                  /\ ret.tag = "ok"
                  /\ mod_inverse(ret.val[1], mod) = mod_power(num, -exp, mod)
                  /\ mod_inverse(ret.val[1], mod) = Ok(<<PyMod(Pow(num, -exp), mod)>>)

\* mod_power has returned a residue other than 1 for an odd exponent below
\* -2 and for an odd exponent above 2
C3_Witness ==
    /\ call.fn = "mod_power" /\ call.args[3] >= 2
    /\ ret.tag = "ok" /\ ret.val[1] > 1
    /\ call.args[2] \in {-3, 3}
    /\ Abs(call.args[1]) > 1

\* C4: for every num and every mod < 2, mod_inverse(num, mod) fails with
\* the InvalidModulus error and returns no value.
C4_ModInverseRejectsSmallModulus ==
    (call.fn = "mod_inverse" /\ call.args[2] < 2) =>
        ret = Raise("ValueError", InvalidModulus)

-----------------------------------------------------------------------------
(* Properties of padic and jacobi, checked under SpecStep.                  *)

UndefinedJacobiSymbol == "Jacobi symbol ( {} | {} ) is undefined"

\* the Legendre symbol (a | p) of an odd prime p, by its definition
Legendre(a, p) ==
    IF PyMod(a, p) = 0 THEN 0
    ELSE IF \E x \in 1 .. p - 1 : PyMod(x * x - a, p) = 0 THEN 1
    ELSE -1

SmallestPrimeFactor(n) ==
    CHOOSE d \in 2 .. n : Divides(d, n) /\ \A e \in 2 .. d - 1 : ~Divides(e, n)

\* the Jacobi symbol (a | n) of an odd n >= 1: the product of the Legendre
\* symbols of the prime factors of n, with multiplicity
RECURSIVE JacobiSymbol(_, _)
JacobiSymbol(a, n) ==
    IF n = 1 THEN 1
    ELSE LET p == SmallestPrimeFactor(n)
         IN  Legendre(a, p) * JacobiSymbol(a, n \div p)

JacobiRow15 == <<0, 1, 1, 0, 1, 0, 0, -1, 1, 0, 0, -1, 0, -1, -1>>

\* C5: for every a and every even b, jacobi(a, b) fails with the
\* UndefinedJacobiSymbol error, a ValueError like the other functions'
\* errors, and with no other kind of error.
C5_JacobiEvenIsValueError ==
    (pc = "done" /\ top.fn = "jacobi" /\ PyMod(top.args[2], 2) = 0) =>
        out = Raise("ValueError", UndefinedJacobiSymbol)

\* C6: for every odd b >= 1 and every a, jacobi(a, b) returns the Jacobi
\* symbol (a | b), which is in {-1, 0, 1} and is 0 iff gcd(a, b) # 1; the
\* row jacobi(a, 15), a = 0..14, is [0,1,1,0,1,0,0,-1,1,0,0,-1,0,-1,-1]. On
\* the way padic is never run on 0.
C6_JacobiValue ==
    (top.fn = "jacobi" /\ top.args[2] >= 1 /\ PyMod(top.args[2], 2) = 1) =>
        LET a == top.args[1]
            b == top.args[2]
        IN  /\ pc = "padic_loop" => prest # 0
            /\ pc = "done" =>
                  /\ out.tag = "ok"
                  /\ out.val = <<JacobiSymbol(a, b)>>
                  /\ out.val[1] \in {-1, 0, 1}
                  /\ out.val[1] = 0 <=> GreatestCommonDivisor(a, b) # 1
                  /\ (b = 15 /\ a \in 0 .. 14) => out.val[1] = JacobiRow15[a + 1]

\* jacobi(a, 15) has returned -1 for an a of the fixed row, and jacobi has
\* returned 1 for a b >= 9 with a negative a
C6_Witness ==
    /\ pc = "done" /\ top.fn = "jacobi" /\ out.tag = "ok"
    /\ \/ top.args[2] = 15 /\ top.args[1] \in 0 .. 14 /\ out.val[1] = -1
       \/ top.args[2] >= 9 /\ top.args[1] < 0 /\ out.val[1] = 1

\* C8: for every base >= 2, padic(0, base) has a defined outcome, an error
\* or a sentinel result, so that padic(num, base) terminates for every num:
\* its loop is never left to divide 0, and runs at most |num| times.
C8_PadicDefinedOnZero ==
    (pc = "padic_loop" /\ top.fn = "padic") =>
        /\ pnum = 0 => PyMod(prest, pbase) # 0
        /\ pexp <= Abs(pnum)

\* C9: for every a and every odd b, of either sign, jacobi(a, b) terminates:
\* at each recursive call jacobi(b, a') the new second argument a' is
\* smaller than the current one, b, and padic is never called on 0.
C9_JacobiDescends ==
    (top.fn = "jacobi" /\ PyMod(top.args[2], 2) = 1) =>
        /\ (pc = "jacobi" /\ sgns # <<>>) => jb < ja
        /\ (pc = "padic" /\ caller = "jacobi") => pnum # 0

-----------------------------------------------------------------------------
(* Properties of ModularRing, checked under SpecRing.                       *)

\* x^k mod m by k multiplications
RECURSIVE PowerMod(_, _, _)
PowerMod(x, k, m) == IF k = 0 THEN 1 ELSE (x * PowerMod(x, k - 1, m)) % m

\* the order of the unit x modulo m: the least k >= 1 with x^k = 1 (mod m)
OrderOfUnit(x, m) ==
    CHOOSE k \in 1 .. m :
        /\ PowerMod(x, k, m) = 1
        /\ \A j \in 1 .. k - 1 : PowerMod(x, j, m) # 1

\* C7: for every modulus >= 2 and every unit x in [1, modulus), after any
\* sequence of accessor calls, order_of(x) returns the least k >= 1 with
\* x^k = 1 (mod modulus), and that value divides carmichael().
C7_OrderOfIsOrder ==
    (last.fn = "order_of" /\ last.arg \in Units(modulus)) =>
        /\ last.exc = "none"
        /\ last.val = Some(OrderOfUnit(last.arg, modulus))
        /\ Divides(last.val[1], carmichael(Ring).v)

\* order_of has answered from the discrete log with an order that is
\* neither 1, 2 nor euler(), in a ring whose table also holds an order that
\* the divisor search found while generator() was scanning
C7_Witness ==
    /\ last.fn = "order_of" /\ last.path = "discrete_log"
    /\ last.val # None /\ last.val[1] > 2 /\ last.val # _euler
    /\ \E y \in DOMAIN orders :
          y \notin {1, modulus - 1} /\ y < _generator[1] /\ orders[y] > 2

\* a cell that holds a value keeps it
Kept(cell, cell_next) == cell # None => cell_next = cell

\* C10: across any sequence of accessor calls on one ModularRing, a cache
\* cell or an entry of the order table that has received a value is never
\* overwritten or removed: the table only gains entries.
C10_CachesInsertOnly ==
    [][/\ modulus' = modulus
       /\ \A k \in DOMAIN orders : k \in DOMAIN orders' /\ orders'[k] = orders[k]
       /\ Kept(_factorization, _factorization')
       /\ Kept(_euler, _euler')
       /\ Kept(_carmichael, _carmichael')
       /\ Kept(_carmichael_factorization, _carmichael_factorization')
       /\ Kept(_multiplicative_group, _multiplicative_group')
       /\ Kept(_generator, _generator')
       /\ Kept(_as_cyclic_group, _as_cyclic_group')
       /\ Kept(_discrete_log, _discrete_log')]_vars

\* cyclic_subgroup_from has returned in a ring of at least 6 units whose
\* cells are all filled and whose order table holds every unit
C10_Witness ==
    /\ last.fn = "cyclic_subgroup_from"
    /\ _factorization # None /\ _euler # None /\ _carmichael # None
    /\ _carmichael_factorization # None /\ _multiplicative_group # None
    /\ _generator # None /\ _as_cyclic_group # None /\ _discrete_log # None
    /\ DOMAIN orders = Units(modulus)
    /\ Cardinality(DOMAIN orders) >= 6

====
